---- MODULE Spec2Model ----
(***************************************************************************)
(* A model of src/model.py: the module tree the four factories build, the  *)
(* parameter storage each module owns, the forward pass of both model      *)
(* variants (operations applied, dropout sites, shape bookkeeping, the     *)
(* attribute forward writes), and the pure tensor functions ConvLayer,     *)
(* PositionalEncoding, attention and MultiHeadAttention.                   *)
(*                                                                         *)
(* Tensors are sequences (1-based), integers where the code's arithmetic   *)
(* is exact on the inputs drawn, and symbolic terms (records naming the    *)
(* float operation and its operands) where the code computes floats.       *)
(***************************************************************************)
EXTENDS Integers, Sequences, FiniteSets, TLC

VARIABLES
    call,      \* the last factory call: its name and arguments
    status,    \* how that call ended: "ok" or the exception it raised
    model,     \* the model the call returned (NoModel when it raised)
    training,  \* nn.Module.training of the model's modules
    fwd,       \* the last forward pass: operations, dropout sites, outcome
    fin,       \* inputs of a pure tensor function (drawn initially)
    fout       \* its result

vars == <<call, status, model, training, fwd, fin, fout>>

\* ------------------------------------------------------------------ bounds
MaxN == 2
MaxDModel == 2
MaxH == 2
MaxLWin == 2
MaxKernel == 3

\* dropout probabilities drawn (per mille): none, and the default 0.1
DropoutPs == {0, 100}
\* the value train.py passes for device (src/train.py:41) and a named one
Devices == {"None", "cpu"}
\* outcomes of the random generator a dropout call consumes
RngDraws == {"r1", "r2"}

\* ------------------------------------------------------------------ helpers
Range(s) == {s[i] : i \in DOMAIN s}

RECURSIVE Flatten(_)
Flatten(ss) == IF ss = <<>> THEN <<>> ELSE Head(ss) \o Flatten(Tail(ss))

\* ------------------------------------------------------------------ modules
\* An nn.Module: its class, its plain attributes, the parameters it owns
\* directly (each naming the storage that holds it) and its child modules.
Module(type, attrs, params, children) ==
    [type |-> type, attrs |-> attrs, params |-> params, children |-> children]

Param(name, id, dim) == [name |-> name, id |-> id, dim |-> dim, init |-> "default"]

Sub(name, mod) == [name |-> name, mod |-> mod]

NoAttrs == [none |-> TRUE]

Child(m, name) == m.children[CHOOSE i \in DOMAIN m.children : m.children[i].name = name].mod

\* the storages of a module tree
RECURSIVE StorageIds(_)
StorageIds(m) ==
    {p.id : p \in Range(m.params)}
        \cup UNION {StorageIds(c.mod) : c \in Range(m.children)}

NumStorage(m) == Cardinality(StorageIds(m))

\* named_parameters() without the de-duplication: every (path, storage) pair
RECURSIVE NamedParameters(_, _)
NamedParameters(m, prefix) ==
    [i \in DOMAIN m.params |->
        [path |-> Append(prefix, m.params[i].name), id |-> m.params[i].id,
         dim |-> m.params[i].dim, init |-> m.params[i].init]]
    \o Flatten([i \in DOMAIN m.children |->
                NamedParameters(m.children[i].mod, Append(prefix, m.children[i].name))])

\* copy.deepcopy of a module: the same tree over fresh storages, starting at
\* base; a storage used twice in the original is used twice in the copy.
RECURSIVE Relocate(_, _, _)
Relocate(m, ids, base) ==
    [m EXCEPT
        !.params = [i \in DOMAIN m.params |->
            [m.params[i] EXCEPT !.id = base + Cardinality({x \in ids : x < m.params[i].id})]],
        !.children = [i \in DOMAIN m.children |->
            Sub(m.children[i].name, Relocate(m.children[i].mod, ids, base))]]

deepcopy(m, base) == Relocate(m, StorageIds(m), base)

\* clones without the deep copy: the same module object N times
clones_shared(module, N, base) ==
    Module("ModuleList", NoAttrs, <<>>, [i \in 1..N |-> Sub(ToString(i - 1), module)])

\* clones (model.py:46-50): N deep copies in a ModuleList
clones(module, N, base) ==
    Module("ModuleList", NoAttrs, <<>>,
           [i \in 1..N |-> Sub(ToString(i - 1),
                               deepcopy(module, base + (i - 1) * NumStorage(module)))])

Linear(in_features, out_features, base) ==
    Module("Linear", [in_features |-> in_features, out_features |-> out_features],
           <<Param("weight", base, 2), Param("bias", base + 1, 1)>>, <<>>)

LayerNorm(size, base) ==
    Module("LayerNorm", [normalized_shape |-> size],
           <<Param("weight", base, 1), Param("bias", base + 1, 1)>>, <<>>)

Dropout(p) == Module("Dropout", [p |-> p], <<>>, <<>>)

\* ConvLayer.__init__ (model.py:18-22)
ConvLayer_init(n_features, kernel_size, base) ==
    Module("ConvLayer", NoAttrs, <<>>,
       <<Sub("padding", Module("ConstantPad1d",
                               [padding |-> (kernel_size - 1) \div 2, value |-> 0],
                               <<>>, <<>>)),
         Sub("conv", Module("Conv1d",
                            [in_channels |-> n_features, out_channels |-> n_features,
                             kernel_size |-> kernel_size],
                            <<Param("weight", base, 3), Param("bias", base + 1, 1)>>, <<>>)),
         Sub("relu", Module("ReLU", NoAttrs, <<>>, <<>>))>>)


\* ------------------------------------------------- positional encoding table
\* torch.arange(lo, hi, step)
Arange(lo, hi, step) ==
    [i \in 1..(IF hi > lo THEN (hi - lo + step - 1) \div step ELSE 0) |-> lo + (i - 1) * step]

\* One float of the table: fn(pos * exp(k * (-ln(10000) / d))); "zero" is the
\* 0.0 torch.zeros leaves.
Term(fn, pos, k, d) == [fn |-> fn, pos |-> pos, k |-> k, d |-> d]
ZeroTerm == Term("zero", 0, 0, 0)

\* the except branch had it divided the exponent by d_model - 1
div_term_fallback_dminus1(d_model) ==
    [i \in DOMAIN Arange(0, d_model - 1, 2) |->
        [k |-> Arange(0, d_model - 1, 2)[i], d |-> d_model - 1]]

\* div_term (model.py:171-172): exp(arange(0, d_model, 2) * (-ln(10000)/d_model))
div_term(d_model) ==
    [i \in DOMAIN Arange(0, d_model, 2) |-> [k |-> Arange(0, d_model, 2)[i], d |-> d_model]]

\* div_term of the except branch (model.py:178-179)
div_term_fallback(d_model) ==
    [i \in DOMAIN Arange(0, d_model - 1, 2) |->
        [k |-> Arange(0, d_model - 1, 2)[i], d |-> d_model]]

\* fn(position * div): a [max_len, Len(div)] matrix; position = arange(max_len)
Trig(fn, max_len, div) ==
    [r \in 1..max_len |-> [j \in DOMAIN div |-> Term(fn, r - 1, div[j].k, div[j].d)]]

\* the columns start::2 (0-based) of a width-d table
SliceCols(d, start) == {c \in 0..(d - 1) : c % 2 = start}

\* whether pe[:, start::2] = src raises no shape error: equal widths, or a
\* width-1 source broadcast
CanAssign(d, start, ncols) ==
    ncols = Cardinality(SliceCols(d, start)) \/ ncols = 1

\* pe[:, start::2] = src
AssignCols(pe, d, start, src, ncols) ==
    [r \in DOMAIN pe |->
        [c \in 1..d |->
            IF (c - 1) \in SliceCols(d, start)
            THEN src[r][IF ncols = 1 THEN 1 ELSE ((c - 1) \div 2) + 1]
            ELSE pe[r][c]]]

\* the table PositionalEncoding.__init__ registers (model.py:169-180)
PositionalEncoding_pe(d_model, max_len) ==
    LET zeros == [r \in 1..max_len |-> [c \in 1..d_model |-> ZeroTerm]]
        div   == div_term(d_model)
        pe1   == AssignCols(zeros, d_model, 0, Trig("sin", max_len, div), Len(div))
        div2  == div_term_fallback(d_model)
    IN  IF CanAssign(d_model, 1, Len(div))
        THEN AssignCols(pe1, d_model, 1, Trig("cos", max_len, div), Len(div))
        ELSE AssignCols(pe1, d_model, 1, Trig("cos", max_len, div2), Len(div2))

\* PositionalEncoding.__init__ (model.py:165-183)
PositionalEncoding_init(d_model, dropout, max_len) ==
    Module("PositionalEncoding", [pe |-> PositionalEncoding_pe(d_model, max_len)], <<>>,
           <<Sub("dropout", Dropout(dropout))>>)

\* ------------------------------------------------------------ the other layers
NoAttn == [set |-> FALSE, mask |-> "None", rng |-> "none"]

\* the constructor without its divisibility assertion
MultiHeadAttention_check_absent(h, d_model) ==
    IF h = 0 THEN "ZeroDivisionError" ELSE "ok"

\* assert d_model % h == 0 (model.py:124)
MultiHeadAttention_check(h, d_model) ==
    IF h = 0 THEN "ZeroDivisionError"
    ELSE IF d_model % h # 0 THEN "AssertionError" ELSE "ok"

\* MultiHeadAttention.__init__ (model.py:119-130): the prototype Linear takes
\* two storages, its four copies the next eight
MultiHeadAttention_init(h, d_model, device, dropout, base) ==
    Module("MultiHeadAttention",
           [d_k |-> d_model \div h, h |-> h, p |-> dropout, attn |-> NoAttn,
            device |-> device],
           <<>>,
           <<Sub("linears", clones(Linear(d_model, d_model, base), 4, base + 2))>>)

\* PositionwiseFeedForward.__init__ (model.py:151-156)
PositionwiseFeedForward_init(d_model, d_ff, dropout, base) ==
    Module("PositionwiseFeedForward", NoAttrs, <<>>,
           <<Sub("w_1", Linear(d_model, d_ff, base)),
             Sub("w_2", Linear(d_ff, d_model, base + 2)),
             Sub("dropout", Dropout(dropout))>>)

\* SublayerConnection.__init__ (model.py:74-77)
SublayerConnection_init(size, dropout, base) ==
    Module("SublayerConnection", NoAttrs, <<>>,
           <<Sub("norm", LayerNorm(size, base)), Sub("dropout", Dropout(dropout))>>)

\* TransformerEncoderLayer.__init__ (model.py:91-96)
TransformerEncoderLayer_init(size, self_attn, feed_forward, dropout, base) ==
    Module("TransformerEncoderLayer", [size |-> size], <<>>,
           <<Sub("self_attn", self_attn),
             Sub("feed_forward", feed_forward),
             Sub("sublayer", clones(SublayerConnection_init(size, dropout, base), 2, base + 2))>>)

FourierFFTLayer_init == Module("FourierFFTLayer", NoAttrs, <<>>, <<>>)

\* FNetEncoderLayer.__init__ (model.py:227-232)
FNetEncoderLayer_init(size, fft, feed_forward, dropout, base) ==
    Module("FNetEncoderLayer", [size |-> size], <<>>,
           <<Sub("fft", fft),
             Sub("feed_forward", feed_forward),
             Sub("sublayer", clones(SublayerConnection_init(size, dropout, base), 2, base + 2))>>)

\* TransformerEncoder.__init__ (model.py:56-59)
TransformerEncoder_init(layer, N, base) ==
    Module("TransformerEncoder", NoAttrs, <<>>,
           <<Sub("layers", clones(layer, N, base)),
             Sub("norm", LayerNorm(layer.attrs.size,
                                   base + (IF N > 0 THEN N ELSE 0) * NumStorage(layer)))>>)

\* FNetEncoder.__init__ (model.py:209-212)
FNetEncoder_init(layer, N, base) ==
    Module("FNetEncoder", NoAttrs, <<>>,
           <<Sub("layers", clones(layer, N, base)),
             Sub("norm", LayerNorm(layer.attrs.size,
                                   base + (IF N > 0 THEN N ELSE 0) * NumStorage(layer)))>>)

\* nn.Sequential(nn.Flatten(), nn.Dropout(dropout), nn.Linear(width, 1))
OutputHead(width, dropout, base) ==
    Module("Sequential", NoAttrs, <<>>,
           <<Sub("0", Module("Flatten", NoAttrs, <<>>, <<>>)),
             Sub("1", Dropout(dropout)),
             Sub("2", Linear(width, 1, base))>>)

\* the storage after the last one a tree uses
NextFree(m, base) ==
    IF StorageIds(m) = {} THEN base
    ELSE 1 + (CHOOSE x \in StorageIds(m) : \A y \in StorageIds(m) : y <= x)

\* for p in model.parameters(): if p.dim() > 1: nn.init.xavier_uniform_(p)
RECURSIVE XavierInit(_)
XavierInit(m) ==
    [m EXCEPT
        !.params = [i \in DOMAIN m.params |->
            IF m.params[i].dim > 1
            THEN [m.params[i] EXCEPT !.init = "xavier_uniform"] ELSE m.params[i]],
        !.children = [i \in DOMAIN m.children |->
            Sub(m.children[i].name, XavierInit(m.children[i].mod))]]


\* ------------------------------------------------------------ the factories
NoModel == [type |-> "None"]

TransformerModel_init(encoder, src_embed, linear, conv) ==
    Module("TransformerModel", NoAttrs, <<>>,
           <<Sub("encoder", encoder), Sub("src_embed", src_embed),
             Sub("linear", linear), Sub("conv", conv)>>)

FNetHybridModel_init(trans, src_embed, linear, fnet, conv) ==
    Module("FNetHybridModel", NoAttrs, <<>>,
           <<Sub("trans", trans), Sub("src_embed", src_embed),
             Sub("linear", linear), Sub("fnet", fnet), Sub("conv", conv)>>)

\* The body the two Transformer factories share (model.py:252-273 and
\* 277-298); they differ in the head width only.
create_transformer(N, d_model, l_win, device, kernel_size, d_ff0, h, dropout, width) ==
    LET d_ff     == IF d_ff0 = 0 THEN d_model * 4 ELSE d_ff0
        conv     == ConvLayer_init(d_model, kernel_size, 0)
        chk      == MultiHeadAttention_check(h, d_model)
        attn     == MultiHeadAttention_init(h, d_model, device, dropout, NextFree(conv, 0))
        ff       == PositionwiseFeedForward_init(d_model, d_ff, dropout, NextFree(attn, 0))
        position == PositionalEncoding_init(d_model, dropout, l_win)
        final_linear == OutputHead(width, dropout, NextFree(ff, 0))
        cattn    == deepcopy(attn, NextFree(final_linear, 0))
        cff      == deepcopy(ff, NextFree(cattn, 0))
        layer    == TransformerEncoderLayer_init(d_model, cattn, cff, dropout, NextFree(cff, 0))
        encoder  == TransformerEncoder_init(layer, N, NextFree(layer, 0))
    IN  IF chk # "ok" THEN [status |-> chk, model |-> NoModel]
        ELSE [status |-> "ok",
              model |-> XavierInit(TransformerModel_init(
                            encoder,
                            Module("Sequential", NoAttrs, <<>>, <<Sub("0", position)>>),
                            final_linear, conv))]

\* a Fourier stack as deep as the whole model
FourierDepth_all(N) == N

\* the depth handed to FNetEncoder: N - 1 (model.py:318, 345)
FourierDepth(N) == N - 1

\* The body the two Hybrid factories share (model.py:302-325 and 329-352).
create_fnet_hybrid(N, d_model, l_win, device, kernel_size, d_ff0, h, dropout, width) ==
    LET d_ff     == IF d_ff0 = 0 THEN d_model * 4 ELSE d_ff0
        conv     == ConvLayer_init(d_model, kernel_size, 0)
        chk      == MultiHeadAttention_check(h, d_model)
        attn     == MultiHeadAttention_init(h, d_model, device, dropout, NextFree(conv, 0))
        ff       == PositionwiseFeedForward_init(d_model, d_ff, dropout, NextFree(attn, 0))
        position == PositionalEncoding_init(d_model, dropout, l_win)
        final_linear == OutputHead(width, dropout, NextFree(ff, 0))
        fft      == FourierFFTLayer_init
        cattn    == deepcopy(attn, NextFree(final_linear, 0))
        cff      == deepcopy(ff, NextFree(cattn, 0))
        layer    == TransformerEncoderLayer_init(d_model, cattn, cff, dropout, NextFree(cff, 0))
        trans    == TransformerEncoder_init(layer, 1, NextFree(layer, 0))
        cff2     == deepcopy(ff, NextFree(trans, 0))
        flayer   == FNetEncoderLayer_init(d_model, fft, cff2, dropout, NextFree(cff2, 0))
        fnet     == FNetEncoder_init(flayer, FourierDepth(N), NextFree(flayer, 0))
    IN  IF chk # "ok" THEN [status |-> chk, model |-> NoModel]
        ELSE [status |-> "ok",
              model |-> XavierInit(FNetHybridModel_init(
                            trans,
                            Module("Sequential", NoAttrs, <<>>, <<Sub("0", position)>>),
                            final_linear, fnet, conv))]

\* model.py:251-273
create_transformer_kernel_even(N, d_model, l_win, device, kernel_size, d_ff, h, dropout) ==
    create_transformer(N, d_model, l_win, device, kernel_size, d_ff, h, dropout,
                       d_model * (l_win - 1))

\* model.py:276-298
create_transformer_kernel_odd(N, d_model, l_win, device, kernel_size, d_ff, h, dropout) ==
    create_transformer(N, d_model, l_win, device, kernel_size, d_ff, h, dropout,
                       d_model * l_win)

\* model.py:301-325
create_fnet_hybrid_kernel_even(N, d_model, l_win, device, kernel_size, d_ff, h, dropout) ==
    create_fnet_hybrid(N, d_model, l_win, device, kernel_size, d_ff, h, dropout,
                       d_model * (l_win - 1))

\* model.py:328-352
create_fnet_hybrid_kernel_odd(N, d_model, l_win, device, kernel_size, d_ff, h, dropout) ==
    create_fnet_hybrid(N, d_model, l_win, device, kernel_size, d_ff, h, dropout,
                       d_model * l_win)


\* ------------------------------------------------------------ ConvLayer.forward
RECURSIVE SumSeq(_)
SumSeq(s) == IF s = <<>> THEN 0 ELSE Head(s) + SumSeq(Tail(s))

\* x.permute(0, 2, 1) of a [batch][a][b] tensor whose rows have width nb
Permute021(x, nb) ==
    [b \in DOMAIN x |-> [j \in 1..nb |-> [i \in DOMAIN x[b] |-> x[b][i][j]]]]

\* nn.ConstantPad1d(padding, 0.0): zeros on both ends of the last axis
ConstantPad1d_forward(x, padding) ==
    [b \in DOMAIN x |-> [c \in DOMAIN x[b] |->
        [i \in 1..padding |-> 0] \o x[b][c] \o [i \in 1..padding |-> 0]]]

\* nn.Conv1d, stride 1, no padding of its own: W[o][c][j], bias[o]
Conv1d_forward(x, W, bias, kernel_size, len) ==
    [b \in DOMAIN x |-> [o \in DOMAIN W |->
        [t \in 1..(len - kernel_size + 1) |->
            bias[o] + SumSeq(Flatten([c \in DOMAIN x[b] |->
                          [j \in 1..kernel_size |-> W[o][c][j] * x[b][c][t + j - 1]]]))]]]

ReLU_forward(x) ==
    [b \in DOMAIN x |-> [c \in DOMAIN x[b] |->
        [t \in DOMAIN x[b][c] |-> IF x[b][c][t] > 0 THEN x[b][c][t] ELSE 0]]]

\* ConvLayer.forward had the padding been kernel_size // 2
ConvLayer_forward_pad_half(conv, W, bias, src) ==
    LET k   == Child(conv, "conv").attrs.kernel_size
        ch  == Child(conv, "conv").attrs.in_channels
        x1  == ConstantPad1d_forward(Permute021(src, ch), k \div 2)
        len == Len(x1[1][1])
    IN  IF len < k THEN [status |-> "RuntimeError", out |-> <<>>]
        ELSE [status |-> "ok",
              out |-> Permute021(ReLU_forward(Conv1d_forward(x1, W, bias, k, len)),
                                 len - k + 1)]

\* ConvLayer.forward (model.py:24-28) on src of shape [batch][L][channels];
\* Conv1d raises when the padded input is shorter than the kernel
ConvLayer_forward(conv, W, bias, src) ==
    LET k   == Child(conv, "conv").attrs.kernel_size
        ch  == Child(conv, "conv").attrs.in_channels
        x1  == ConstantPad1d_forward(Permute021(src, ch), Child(conv, "padding").attrs.padding)
        len == Len(x1[1][1])
    IN  IF len < k THEN [status |-> "RuntimeError", out |-> <<>>]
        ELSE [status |-> "ok",
              out |-> Permute021(ReLU_forward(Conv1d_forward(x1, W, bias, k, len)),
                                 len - k + 1)]

\* weights drawn for a Conv1d of d channels and width k
ConvWeightKinds == {"ones", "signed"}
ConvWeight(kind, d, k) ==
    [o \in 1..d |-> [c \in 1..d |-> [j \in 1..k |->
        IF kind = "ones" \/ (o + c + j) % 2 = 0 THEN 1 ELSE -1]]]
ConvBias(kind, d) == [o \in 1..d |-> IF kind = "ones" THEN 0 ELSE o - 2]


\* -------------------------------------------------- the forward pass, by module
\* A forward pass is followed through the module tree: the operations applied
\* in order, each dropout call with whether it drops (nn.Dropout drops when
\* its module is in training mode, F.dropout when its training argument is
\* true), the time length left by the convolution, and the width the head's
\* Linear is given.
Site(name, p, active) == [site |-> name, p |-> p, active |-> active]

Step(ops, drops) == [ops |-> ops, drops |-> drops]
Then(a, b) == [ops |-> a.ops \o b.ops, drops |-> a.drops \o b.drops]

RECURSIVE ThenAll(_)
ThenAll(steps) ==
    IF steps = <<>> THEN Step(<<>>, <<>>) ELSE Then(Head(steps), ThenAll(Tail(steps)))

\* nn.Dropout.forward: F.dropout(x, self.p, self.training)
Dropout_forward(m, name, train) == Step(<<"dropout">>, <<Site(name, m.attrs.p, train)>>)

\* attention (model.py:103-115): F.dropout(p_attn, p=dropout) is called
\* without a training argument, whose default is True
attention_steps(p) ==
    Step(<<"matmul", "scale", "softmax", "dropout", "matmul">>,
         <<Site("attention", p, TRUE)>>)

\* MultiHeadAttention.forward (model.py:132-145)
MultiHeadAttention_steps(m) ==
    ThenAll(<<Step(<<"linear", "linear", "linear">>, <<>>),
              attention_steps(m.attrs.p),
              Step(<<"linear">>, <<>>)>>)

\* PositionwiseFeedForward.forward (model.py:158-159)
PositionwiseFeedForward_steps(m, train) ==
    ThenAll(<<Step(<<"linear", "relu">>, <<>>),
              Dropout_forward(Child(m, "dropout"), "feed_forward", train),
              Step(<<"linear">>, <<>>)>>)

\* SublayerConnection.forward (model.py:79-83): x + dropout(sublayer(norm(x)))
SublayerConnection_steps(m, sublayer, train) ==
    ThenAll(<<Step(<<"norm">>, <<>>), sublayer,
              Dropout_forward(Child(m, "dropout"), "sublayer", train),
              Step(<<"add">>, <<>>)>>)

\* TransformerEncoderLayer.forward (model.py:98-100)
TransformerEncoderLayer_steps(m, train) ==
    Then(SublayerConnection_steps(Child(Child(m, "sublayer"), "0"),
                                  MultiHeadAttention_steps(Child(m, "self_attn")), train),
         SublayerConnection_steps(Child(Child(m, "sublayer"), "1"),
                                  PositionwiseFeedForward_steps(Child(m, "feed_forward"), train),
                                  train))

\* FNetEncoderLayer.forward (model.py:234-236), FourierFFTLayer.forward (243-248)
FNetEncoderLayer_steps(m, train) ==
    Then(SublayerConnection_steps(Child(Child(m, "sublayer"), "0"),
                                  Step(<<"fft", "fft", "real">>, <<>>), train),
         SublayerConnection_steps(Child(Child(m, "sublayer"), "1"),
                                  PositionwiseFeedForward_steps(Child(m, "feed_forward"), train),
                                  train))

\* TransformerEncoder.forward (model.py:61-65)
TransformerEncoder_steps(m, train) ==
    Then(ThenAll([i \in DOMAIN Child(m, "layers").children |->
                    Then(Step(<<"attention_layer">>, <<>>),
                         TransformerEncoderLayer_steps(Child(m, "layers").children[i].mod, train))]),
         Step(<<"norm">>, <<>>))

\* FNetEncoder.forward had an empty stack returned its input
FNetEncoder_steps_skip_empty(m, train) ==
    IF Child(m, "layers").children = <<>> THEN Step(<<>>, <<>>)
    ELSE Then(ThenAll([i \in DOMAIN Child(m, "layers").children |->
                    Then(Step(<<"fourier_layer">>, <<>>),
                         FNetEncoderLayer_steps(Child(m, "layers").children[i].mod, train))]),
              Step(<<"norm">>, <<>>))

\* FNetEncoder.forward (model.py:214-218)
FNetEncoder_steps(m, train) ==
    Then(ThenAll([i \in DOMAIN Child(m, "layers").children |->
                    Then(Step(<<"fourier_layer">>, <<>>),
                         FNetEncoderLayer_steps(Child(m, "layers").children[i].mod, train))]),
         Step(<<"norm">>, <<>>))

\* PositionalEncoding.forward (model.py:185-187)
PositionalEncoding_steps(m, train) ==
    Then(Step(<<"add_pe">>, <<>>), Dropout_forward(Child(m, "dropout"), "src_embed", train))

\* the output head: Flatten, Dropout, Linear, then F.relu
OutputHead_steps(m, train) ==
    ThenAll(<<Step(<<"flatten">>, <<>>),
              Dropout_forward(Child(m, "1"), "linear", train),
              Step(<<"linear", "relu">>, <<>>)>>)


\* ------------------------------------------------------ the forward pass, whole
\* self.attn = p_attn (model.py:141) in every MultiHeadAttention of the tree
RECURSIVE WriteAttn(_, _, _)
WriteAttn(m, mask, rng) ==
    [m EXCEPT
        !.attrs = IF m.type = "MultiHeadAttention"
                  THEN [@ EXCEPT !.attn = [set |-> TRUE, mask |-> mask,
                                           rng |-> IF m.attrs.p > 0 THEN rng ELSE "none"]]
                  ELSE @,
        !.children = [i \in DOMAIN m.children |->
            Sub(m.children[i].name, WriteAttn(m.children[i].mod, mask, rng))]]

\* whether some dropout call of the steps drops: F.dropout with training true
\* and p > 0 zeroes the elements the generator's draw picks
Noisy(steps) == \E i \in DOMAIN steps.drops : steps.drops[i].active /\ steps.drops[i].p > 0

\* LayerNorm.forward over one feature: x - mean(x) is 0 whatever x is, so the
\* result is the bias, and the bias is zeros as nn.LayerNorm builds it
\* (xavier_uniform_ is applied to parameters of more than one dimension only)
LayerNorm_zero(norm) ==
    /\ norm.attrs.normalized_shape = 1
    /\ \A i \in DOMAIN norm.params :
          norm.params[i].name = "bias" => norm.params[i].init = "default"

\* The outputs a forward pass can give under a draw. What the encoder hands
\* the head is the result of its closing LayerNorm (model.py:65, 218): over
\* one feature it is zeros, which no earlier draw changes and which the
\* head's dropout leaves zeros. Over more features a draw that drops can show
\* in the output or not, by the values of the parameters and the window,
\* which are not followed.
Outputs(norm, all, mask, rng) ==
    {[mask |-> mask, rng |-> "none", value |-> TRUE]}
        \cup (IF Noisy(all) /\ ~LayerNorm_zero(norm)
              THEN {[mask |-> mask, rng |-> rng, value |-> TRUE]} ELSE {})

NoFwd == [status |-> "none"]

\* What both forward methods share: conv, src_embed, the encoder steps given,
\* then the head, whose Linear raises when the flattened width is not its
\* in_features. The window is [1][l_win][d_model]; only its shape is followed.
Pipeline(m, encoder_steps, norm, l_win, mask, train, rng) ==
    LET cv    == Child(m, "conv")
        d     == Child(cv, "conv").attrs.in_channels
        k     == Child(cv, "conv").attrs.kernel_size
        src   == <<[t \in 1..l_win |-> [c \in 1..d |-> 0]]>>
        c     == ConvLayer_forward(cv, ConvWeight("ones", d, k), ConvBias("ones", d), src)
        len   == Len(c.out[1])
        head  == Child(m, "linear")
        pre   == ThenAll(<<Step(<<"conv">>, <<>>),
                           PositionalEncoding_steps(Child(Child(m, "src_embed"), "0"), train),
                           encoder_steps>>)
        upto  == ThenAll(<<pre, Step(<<"flatten">>, <<>>),
                           Dropout_forward(Child(head, "1"), "linear", train)>>)
        all   == Then(pre, OutputHead_steps(head, train))
    IN  IF c.status # "ok"
        THEN [fwd |-> [status |-> "RuntimeError", at |-> "conv", ops |-> <<"conv">>,
                       drops |-> <<>>, len |-> 0, training |-> train,
                       out |-> [mask |-> mask, rng |-> "none", value |-> FALSE]],
              outs |-> {[mask |-> mask, rng |-> "none", value |-> FALSE]},
              model |-> m]
        ELSE IF d * len # Child(head, "2").attrs.in_features
        THEN [fwd |-> [status |-> "RuntimeError", at |-> "linear", ops |-> upto.ops,
                       drops |-> upto.drops, len |-> len, training |-> train,
                       out |-> [mask |-> mask, rng |-> "none", value |-> FALSE]],
              outs |-> {[mask |-> mask, rng |-> "none", value |-> FALSE]},
              model |-> WriteAttn(m, mask, rng)]
        ELSE [fwd |-> [status |-> "ok", at |-> "end", ops |-> all.ops,
                       drops |-> all.drops, len |-> len, training |-> train,
                       out |-> [mask |-> mask, rng |-> "none", value |-> TRUE]],
              outs |-> Outputs(norm, all, mask, rng),
              model |-> WriteAttn(m, mask, rng)]

\* TransformerModel.forward (model.py:39-43)
TransformerModel_forward(m, l_win, mask, train, rng) ==
    Pipeline(m, TransformerEncoder_steps(Child(m, "encoder"), train),
             Child(Child(m, "encoder"), "norm"), l_win, mask, train, rng)

\* FNetHybridModel.forward (model.py:199-203)
FNetHybridModel_forward(m, l_win, mask, train, rng) ==
    Pipeline(m, Then(TransformerEncoder_steps(Child(m, "trans"), train),
                     FNetEncoder_steps(Child(m, "fnet"), train)),
             Child(Child(m, "fnet"), "norm"), l_win, mask, train, rng)

\* ------------------------------------------------------------------ attention
\* tensor.to(device): the same values wherever they are placed
To(x, device) == x

Dot(a, b) == SumSeq([i \in DOMAIN a |-> a[i] * b[i]])

\* n / sqrt(dk), kept exact
Scaled(n, dk) == [n |-> n, dk |-> dk]
\* the -1e9 masked_fill writes
Filled == Scaled(-1000000000, 1)

NoMask == [present |-> FALSE, m |-> <<>>]

\* F.dropout(x, p) with training left at its default, True: every weight is
\* dropped or rescaled as the generator decides, unless p is 0
F_dropout(x, p, rng) ==
    IF p = 0 THEN x
    ELSE [i \in DOMAIN x |-> [j \in DOMAIN x[i] |-> [x |-> x[i][j], p |-> p, rng |-> rng]]]

\* what attention does after its operands are placed (model.py:108-115)
attention_body(query, key, value, device, mask, dropout, rng) ==
    LET d_k    == Len(query[1])
        scores == [i \in DOMAIN query |-> [j \in DOMAIN key |->
                      Scaled(Dot(query[i], key[j]), d_k)]]
        filled == IF mask.present
                  THEN [i \in DOMAIN scores |-> [j \in DOMAIN scores[i] |->
                           IF To(mask.m, device)[i][j] = 0 THEN Filled ELSE scores[i][j]]]
                  ELSE scores
        p_attn == F_dropout([i \in DOMAIN filled |-> [j \in DOMAIN filled[i] |->
                                [softmax |-> filled[i], at |-> j]]],
                            dropout, rng)
    IN  [out |-> [i \in DOMAIN p_attn |-> [c \in DOMAIN value[1] |->
                    [j \in DOMAIN value |-> <<p_attn[i][j], value[j][c]>>]]],
         p_attn |-> p_attn]

\* attention had key and value been placed, not replaced
attention_qkv(query, key, value, device, mask, dropout, rng) ==
    attention_body(To(query, device), To(key, device), To(value, device),
                   device, mask, dropout, rng)

\* attention (model.py:103-115): key = query.to(device), value = query.to(device)
attention(query, key, value, device, mask, dropout, rng) ==
    attention_body(To(query, device), To(query, device), To(query, device),
                   device, mask, dropout, rng)

\* nn.Linear.forward with weight w.W[o][i] and bias w.b[o]
Linear_forward(w, x) ==
    [t \in DOMAIN x |-> [o \in DOMAIN w.W |->
        w.b[o] + SumSeq([i \in DOMAIN x[t] |-> x[t][i] * w.W[o][i]])]]

\* l(x).view(nbatches, -1, h, d_k).transpose(1, 2), one batch: head hd holds
\* the columns (hd-1)*d_k+1 .. hd*d_k
Heads(x, h, d_k) ==
    [hd \in 1..h |-> [t \in DOMAIN x |-> [c \in 1..d_k |-> x[t][(hd - 1) * d_k + c]]]]

\* MultiHeadAttention.forward (model.py:132-145) for one batch; linears are
\* the weights of self.linears, m the module. The final Linear is applied to
\* floats, so its output is kept as the weights and the row they multiply.
MultiHeadAttention_forward(m, linears, query, key, value, mask, rng) ==
    LET q   == Heads(Linear_forward(linears[1], query), m.attrs.h, m.attrs.d_k)
        k   == Heads(Linear_forward(linears[2], key), m.attrs.h, m.attrs.d_k)
        v   == Heads(Linear_forward(linears[3], value), m.attrs.h, m.attrs.d_k)
        a   == [hd \in 1..m.attrs.h |->
                  attention(q[hd], k[hd], v[hd], m.attrs.device, mask, m.attrs.p, rng)]
        x   == [t \in DOMAIN query |-> Flatten([hd \in 1..m.attrs.h |-> a[hd].out[t]])]
    IN  [out |-> [t \in DOMAIN x |-> [o \in DOMAIN linears[4].W |->
                    [W |-> linears[4].W[o], b |-> linears[4].b[o], x |-> x[t]]]],
         attn |-> [hd \in 1..m.attrs.h |-> a[hd].p_attn]]

\* ------------------------------------------------------------------ the program
NoCall == [factory |-> "none"]
NoIn == [fn |-> "none"]
NoOut == [status |-> "none"]

Init ==
    /\ call = NoCall
    /\ status = "none"
    /\ model = NoModel
    /\ training = TRUE
    /\ fwd = NoFwd
    /\ fin = NoIn
    /\ fout = NoOut

\* the names model.py defines for a caller to import
Exports == {"create_transformer_kernel_even", "create_transformer_kernel_odd",
            "create_fnet_hybrid_kernel_even", "create_fnet_hybrid_kernel_odd"}

\* from model import create_transformer, create_fnet_hybrid (train.py:10)
TrainImports == {"create_transformer", "create_fnet_hybrid"}

\* python train.py: the import of train.py:10 names nothing model.py defines,
\* so the script ends in ImportError before main runs and builds no model
TrainMain ==
    /\ call = NoCall
    /\ ~(TrainImports \subseteq Exports)
    /\ call' = [factory |-> "train.py", args |-> [none |-> TRUE]]
    /\ status' = "ImportError"
    /\ UNCHANGED <<model, training, fwd, fin, fout>>

\* d_ff: the default 0 (model.py:251) and the 256 of make_configs.py:12
DFFs == {0, 256}

\* the arguments of a factory (model.py:251): device is None, as a caller
\* without a device passes it
Args == [N : 1..MaxN, d_model : 1..MaxDModel, l_win : 1..MaxLWin,
         kernel_size : 1..MaxKernel, d_ff : DFFs, h : 0..MaxH, dropout : DropoutPs]

\* a direct call of one of the four factories of model.py, made once per
\* run: the model is bound when the call returns, and a new module is in
\* training mode
Create(name, a, r) ==
    /\ call = NoCall
    /\ name \in Exports
    /\ call' = [factory |-> name, args |-> a]
    /\ status' = r.status
    /\ model' = r.model
    /\ training' = TRUE
    /\ fwd' = NoFwd
    /\ UNCHANGED <<fin, fout>>

CreateTransformerKernelEven ==
    \E a \in Args :
        Create("create_transformer_kernel_even", a,
               create_transformer_kernel_even(a.N, a.d_model, a.l_win, "None",
                                              a.kernel_size, a.d_ff, a.h, a.dropout))

CreateTransformerKernelOdd ==
    \E a \in Args :
        Create("create_transformer_kernel_odd", a,
               create_transformer_kernel_odd(a.N, a.d_model, a.l_win, "None",
                                             a.kernel_size, a.d_ff, a.h, a.dropout))

CreateFnetHybridKernelEven ==
    \E a \in Args :
        Create("create_fnet_hybrid_kernel_even", a,
               create_fnet_hybrid_kernel_even(a.N, a.d_model, a.l_win, "None",
                                              a.kernel_size, a.d_ff, a.h, a.dropout))

CreateFnetHybridKernelOdd ==
    \E a \in Args :
        Create("create_fnet_hybrid_kernel_odd", a,
               create_fnet_hybrid_kernel_odd(a.N, a.d_model, a.l_win, "None",
                                             a.kernel_size, a.d_ff, a.h, a.dropout))

\* model.train() / model.eval(): the mode is set from outside
SetTraining ==
    /\ model # NoModel
    /\ \E b \in BOOLEAN : b # training /\ training' = b
    /\ UNCHANGED <<call, status, model, fwd, fin, fout>>

\* model(src) on a window of the length the model was built for; src_mask
\* keeps its default, None (the mask only reaches attention, which is followed
\* with and without one below). fwd.out is the output returned: one of those
\* the pass can give under the draw.
Forward ==
    /\ model # NoModel
    /\ \E mask \in {"None"}, rng \in RngDraws :
        \E r \in {IF model.type = "TransformerModel"
                  THEN TransformerModel_forward(model, call.args.l_win, mask, training, rng)
                  ELSE FNetHybridModel_forward(model, call.args.l_win, mask, training, rng)} :
            /\ \E o \in r.outs : fwd' = [r.fwd EXCEPT !.out = o]
            /\ model' = r.model
    /\ UNCHANGED <<call, status, training, fin, fout>>

Next ==
    \/ CreateTransformerKernelEven
    \/ CreateTransformerKernelOdd
    \/ CreateFnetHybridKernelEven
    \/ CreateFnetHybridKernelOdd
    \/ TrainMain
    \/ SetTraining
    \/ Forward

Spec == Init /\ [][Next]_vars


\* ------------------------------------------------------- the tensor functions
\* The functions of model.py that compute on tensors, each applied once to
\* inputs drawn initially; no model is built in these runs.
MaxConvLen == 3
MaxConvD == 2
MaxConvKernel == 4
MaxPEDModel == 7
MaxPELen == 7
MaxAttnLen == 2
MaxDk == 2

Idle ==
    /\ call = NoCall
    /\ status = "none"
    /\ model = NoModel
    /\ training = TRUE
    /\ fwd = NoFwd

\* [rows][cols] matrices over vals
Matrices(rows, cols, vals) == [1..rows -> [1..cols -> vals]]

ConvInputs ==
    UNION {[fn : {"ConvLayer.forward"}, L : {L}, d : {d}, kernel_size : 1..MaxConvKernel,
            w : ConvWeightKinds, src : {<<x>> : x \in Matrices(L, d, {0, 1})}]
           : <<L, d>> \in (1..MaxConvLen) \X (1..MaxConvD)}

InitConv == Idle /\ fin \in ConvInputs /\ fout = NoOut

\* ConvLayer(d, kernel_size)(src)
CallConvLayer ==
    /\ fin.fn = "ConvLayer.forward"
    /\ fout = NoOut
    /\ fout' = ConvLayer_forward(ConvLayer_init(fin.d, fin.kernel_size, 0),
                                 ConvWeight(fin.w, fin.d, fin.kernel_size),
                                 ConvBias(fin.w, fin.d), fin.src)
    /\ UNCHANGED <<call, status, model, training, fwd, fin>>

NextConv == CallConvLayer

SpecConv == InitConv /\ [][NextConv]_vars

PEInputs ==
    [fn : {"PositionalEncoding"}, d_model : 1..MaxPEDModel, max_len : 0..MaxPELen]

InitPE == Idle /\ fin \in PEInputs /\ fout = NoOut

\* PositionalEncoding(d_model, dropout, max_len).pe
CallPositionalEncoding ==
    /\ fin.fn = "PositionalEncoding"
    /\ fout = NoOut
    /\ fout' = [status |-> "ok",
                pe |-> PositionalEncoding_init(fin.d_model, 0, fin.max_len).attrs.pe]
    /\ UNCHANGED <<call, status, model, training, fwd, fin>>

NextPE == CallPositionalEncoding

SpecPE == InitPE /\ [][NextPE]_vars

Flip(x) == [i \in DOMAIN x |-> [j \in DOMAIN x[i] |-> 1 - x[i][j]]]
Ones(x) == [i \in DOMAIN x |-> [j \in DOMAIN x[i] |-> 1]]

\* no mask, and the mask that hides the positions after each one
MasksOf(L) ==
    {NoMask, [present |-> TRUE, m |-> [i \in 1..L |-> [j \in 1..L |-> IF j <= i THEN 1 ELSE 0]]]}

AttentionInputs ==
    UNION {[fn : {"attention"}, query : {q}, key : {q, Flip(q), Ones(q)},
            value : {q, Flip(q), Ones(q)}, device : Devices, mask : MasksOf(Len(q)),
            dropout : DropoutPs, rng : {"r1"}]
           : q \in UNION {Matrices(L, d, {0, 1})
                          : <<L, d>> \in (1..MaxAttnLen) \X (1..MaxDk)}}

\* the weights drawn for a Linear(d, d)
LinearKinds == {"eye", "mix"}
LinearWeights(kind, d) ==
    [W |-> [o \in 1..d |-> [i \in 1..d |->
              IF kind = "eye" THEN (IF o = i THEN 1 ELSE 0) ELSE o + i - 1]],
     b |-> [o \in 1..d |-> IF kind = "eye" THEN 0 ELSE o]]

\* the windows drawn for MultiHeadAttention
Windows(L, d) ==
    {[i \in 1..L |-> [j \in 1..d |-> (i + j) % 2]],
     [i \in 1..L |-> [j \in 1..d |-> IF j = 1 THEN i ELSE 1]]}

MultiHeadInputs ==
    UNION {[fn : {"MultiHeadAttention.forward"}, d_model : {d},
            h : {h \in 1..d : d % h = 0},
            query : {x}, key : {x, Flip(x)}, value : {x, Flip(x)},
            linears : [1..4 -> LinearKinds], device : {"None"},
            mask : MasksOf(Len(x)), dropout : DropoutPs, rng : {"r1"}]
           : <<d, x>> \in UNION {{<<d, x>> : x \in Windows(L, d)}
                                  : <<L, d>> \in (1..MaxAttnLen) \X (1..MaxDk)}}

InitAttn == Idle /\ fin \in (AttentionInputs \cup MultiHeadInputs) /\ fout = NoOut

\* attention(query, key, value, device, mask, dropout)
CallAttention ==
    /\ fin.fn = "attention"
    /\ fout = NoOut
    /\ fout' = [status |-> "ok",
                result |-> attention(fin.query, fin.key, fin.value, fin.device,
                                     fin.mask, fin.dropout, fin.rng)]
    /\ UNCHANGED <<call, status, model, training, fwd, fin>>

MultiHeadOf(i, linears) ==
    MultiHeadAttention_forward(
        MultiHeadAttention_init(i.h, i.d_model, i.device, i.dropout, 0),
        [n \in 1..4 |-> LinearWeights(linears[n], i.d_model)],
        i.query, i.key, i.value, i.mask, i.rng)

\* MultiHeadAttention(h, d_model, device, dropout)(query, key, value, mask)
CallMultiHeadAttention ==
    /\ fin.fn = "MultiHeadAttention.forward"
    /\ fout = NoOut
    /\ fout' = [status |-> "ok", result |-> MultiHeadOf(fin, fin.linears)]
    /\ UNCHANGED <<call, status, model, training, fwd, fin>>

NextAttn == CallAttention \/ CallMultiHeadAttention

SpecAttn == InitAttn /\ [][NextAttn]_vars

\* ------------------------------------------------------------------ the claims
IsHybrid == model # NoModel /\ model.type = "FNetHybridModel"
HeadWidth(m) == Child(Child(m, "linear"), "2").attrs.in_features
Layers(stack) == Child(stack, "layers").children
Indexes(ops, name) == {i \in DOMAIN ops : ops[i] = name}

\* C1: whichever factory built the model and whatever kernel_size it was
\* given, the head's Linear is as wide as d_model times the time length the
\* ConvLayer produces from a window of length l_win.
C1_HeadWidthMatchesConv ==
    (fwd.status # "none" /\ fwd.at # "conv")
        => HeadWidth(model) = call.args.d_model * fwd.len

\* C3: with h >= 1, a factory returns a model when h divides d_model and
\* raises AssertionError, returning none, when it does not.
C3_ConstructionIffDivisible ==
    (call.factory \in Exports /\ call.args.h >= 1)
        => /\ (call.args.d_model % call.args.h = 0)
                => (status = "ok" /\ model # NoModel)
           /\ (call.args.d_model % call.args.h # 0)
                => (status = "AssertionError" /\ model = NoModel)

C3_Witness ==
    /\ call.factory = "create_fnet_hybrid_kernel_even"
    /\ call.args.h >= 1
    /\ call.args.d_model % call.args.h # 0
    /\ status = "AssertionError"

\* C4: a Hybrid model holds one self-attention layer and N - 1 Fourier layers,
\* and its forward runs the attention layer before every Fourier layer.
C4_HybridComposition ==
    IsHybrid =>
        /\ Len(Layers(Child(model, "trans"))) = 1
        /\ \A i \in DOMAIN Layers(Child(model, "trans")) :
              Layers(Child(model, "trans"))[i].mod.type = "TransformerEncoderLayer"
        /\ Len(Layers(Child(model, "fnet"))) = call.args.N - 1
        /\ \A i \in DOMAIN Layers(Child(model, "fnet")) :
              Layers(Child(model, "fnet"))[i].mod.type = "FNetEncoderLayer"
        /\ (fwd.status # "none" /\ fwd.at # "conv") =>
              /\ Cardinality(Indexes(fwd.ops, "attention_layer")) = 1
              /\ Cardinality(Indexes(fwd.ops, "fourier_layer")) = call.args.N - 1
              /\ \A a \in Indexes(fwd.ops, "attention_layer"),
                    f \in Indexes(fwd.ops, "fourier_layer") : a < f

C4_Witness ==
    /\ IsHybrid
    /\ call.args.N = 2
    /\ fwd.status = "ok"
    /\ Indexes(fwd.ops, "fourier_layer") # {}

\* C5: every dropout of a forward pass drops in training mode and is the
\* identity in evaluation mode, where the output is therefore a function of
\* the input and the mask alone.
C5_DropoutFollowsMode ==
    fwd.status = "ok" =>
        /\ fwd.training => \A i \in DOMAIN fwd.drops : fwd.drops[i].active
        /\ ~fwd.training =>
              /\ \A i \in DOMAIN fwd.drops :
                    ~(fwd.drops[i].active /\ fwd.drops[i].p > 0)
              /\ fwd.out.rng = "none"

\* C6: a forward pass leaves the model's own state as it was: once built,
\* the model changes in no step.
C6_ForwardLeavesModelUnchanged ==
    [][(call.factory \in Exports /\ call' = call /\ fwd'.status = "ok")
            => model' = model]_vars

\* C9: no storage holds two parameters of the model: every parameter of every
\* module has a storage of its own.
C9_NoSharedStorage ==
    status = "ok" =>
        LET np == NamedParameters(model, <<>>)
        IN  Cardinality({np[i].id : i \in DOMAIN np}) = Len(np)

C9_Witness ==
    /\ IsHybrid
    /\ call.args.N = 2
    /\ Len(NamedParameters(model, <<>>)) > 2

\* the operations of the Transformer model built with N = 1 and the
\* arguments of the call, the head's width as the Hybrid model has it
TransformerOpsN1 ==
    TransformerModel_forward(
        create_transformer(1, call.args.d_model, call.args.l_win, "None",
                           call.args.kernel_size, call.args.d_ff, call.args.h, call.args.dropout,
                           HeadWidth(model)).model,
        call.args.l_win, "None", fwd.training, "r1").fwd.ops

HeadOps == OutputHead_steps(Child(model, "linear"), fwd.training).ops

\* C10 as stated: for N = 1 the Hybrid forward applies the operations of the
\* Transformer model built with N = 1, the empty Fourier stack adding none.
C10_HybridN1SameOps ==
    (IsHybrid /\ call.args.N = 1 /\ fwd.status = "ok")
        => fwd.ops = TransformerOpsN1

\* C10 as amended: for N = 1 the Hybrid forward applies the operations of the
\* Transformer model built with N = 1 and, between the attention stack's
\* trailing normalization and the head, one more normalization: that of the
\* empty Fourier stack, which adds no mixing or feed-forward operation.
C10_HybridN1OneMoreNorm ==
    (IsHybrid /\ call.args.N = 1 /\ fwd.status = "ok")
        => /\ fwd.ops = SubSeq(TransformerOpsN1, 1, Len(TransformerOpsN1) - Len(HeadOps))
                            \o <<"norm">> \o HeadOps
           /\ Indexes(fwd.ops, "fourier_layer") = {}
           /\ Indexes(fwd.ops, "fft") = {}

C10_Witness ==
    /\ IsHybrid
    /\ call.args.N = 1
    /\ fwd.status = "ok"
    /\ Layers(Child(model, "fnet")) = <<>>


\* C2: where the convolution applies, ConvLayer.forward returns time length L
\* for an odd kernel_size and L - 1 for an even one, each time step d wide.
C2_ConvTimeLength ==
    (fin.fn = "ConvLayer.forward" /\ fout.status = "ok") =>
        \A b \in DOMAIN fout.out :
            /\ Len(fout.out[b]) = IF fin.kernel_size % 2 = 1 THEN fin.L ELSE fin.L - 1
            /\ \A t \in DOMAIN fout.out[b] : Len(fout.out[b][t]) = fin.d

C2_Witness ==
    /\ fin.fn = "ConvLayer.forward"
    /\ fin.kernel_size = 4
    /\ fin.L = 3
    /\ fin.d = 2
    /\ fout.status = "ok"
    /\ Len(fout.out[1]) = 2

\* C7: attention returns what it returns with key and value replaced by
\* query, on every device; and MultiHeadAttention returns what it returns
\* with the key and value operands replaced by the query operand and the key
\* and value projections by the identity, whatever they are.
C7_AttentionIgnoresKeyValue ==
    /\ (fin.fn = "attention" /\ fout.status = "ok") =>
          fout.result = attention(fin.query, fin.query, fin.query, fin.device,
                                  fin.mask, fin.dropout, fin.rng)
    /\ (fin.fn = "MultiHeadAttention.forward" /\ fout.status = "ok") =>
          fout.result = MultiHeadOf([fin EXCEPT !.key = fin.query, !.value = fin.query],
                                    [fin.linears EXCEPT ![2] = "eye", ![3] = "eye"])

C7_Witness ==
    /\ fin.fn = "attention"
    /\ fout.status = "ok"
    /\ fin.device = "None"
    /\ fin.key # fin.query
    /\ fin.value # fin.query
    /\ fin.key # fin.value
    /\ Len(fin.query) = 2

\* C8: the table is [max_len][d_model], every column assigned: column 2i the
\* sine and column 2i+1 the cosine of pos / 10000^(2i/d_model), for odd
\* d_model as for even.
C8_PositionalTable ==
    (fin.fn = "PositionalEncoding" /\ fout.status = "ok") =>
        /\ Len(fout.pe) = fin.max_len
        /\ \A r \in DOMAIN fout.pe :
              /\ Len(fout.pe[r]) = fin.d_model
              /\ \A c \in 0..(fin.d_model - 1) :
                    fout.pe[r][c + 1] =
                        IF c % 2 = 0 THEN Term("sin", r - 1, c, fin.d_model)
                        ELSE Term("cos", r - 1, c - 1, fin.d_model)

C8_Witness ==
    /\ fin.fn = "PositionalEncoding"
    /\ fout.status = "ok"
    /\ fin.d_model = 5
    /\ fin.max_len = 3
    /\ fout.pe[3][4].fn = "cos"

====
